---- MODULE Spec2Model ----
(***************************************************************************)
(* Model of the trivia API backend (backend/flaskr/__init__.py): the       *)
(* request handlers over the Question / Category tables, the pagination    *)
(* helper, and the rejection-sampling loop of the quiz endpoint.           *)
(*                                                                         *)
(* Requests are served one at a time: a handler runs, the response is     *)
(* handed to the client, and the request context is dropped.  The quiz     *)
(* handler is the only one with a loop; one iteration of its while loop    *)
(* is one step, so a call that never leaves the loop shows up as a cycle   *)
(* of the state graph.                                                     *)
(***************************************************************************)
EXTENDS Integers, Sequences, FiniteSets, TLC

VARIABLES
    questions,          \* rows of the Question table, in query order
    nextId,             \* next value of the table's autoincrement id
    req,                \* the request being / last served
    resp,               \* the response to it (status 0: not answered yet)
    pc,                 \* "idle": no request; "while": in the quiz handler's
                        \* loop; "done": the handler has returned
    quiz_pool,          \* local `questions` of get_random_quiz_question
    next_question,      \* local `next_question` (a sequence of 0 or 1 rows)
    history,            \* the quiz session's previous ids, held by the caller
    in_session,         \* whether the running quiz call belongs to the session
    selection,          \* argument of a direct paginate_questions call
    page,               \* its page number
    current_questions,  \* its result
    called              \* whether paginate_questions has been applied

vars == <<questions, nextId, req, resp, pc, quiz_pool, next_question,
          history, in_session, selection, page, current_questions, called>>

catalogVars == <<questions, nextId>>
quizVars == <<quiz_pool, next_question, in_session>>
pageVars == <<selection, page, current_questions, called>>

----------------------------------------------------------------------------
(* Bounds and program constants *)

QUESTIONS_PER_PAGE == 10

\* ids handed out by the Question table: 1..MaxId
MaxId == 3

\* longest sequence given to paginate_questions directly
MaxItems == 25

\* page numbers given to paginate_questions directly: -MaxPage..MaxPage
MaxPage == 4

----------------------------------------------------------------------------
(* JSON values: a key that is absent, a string (a tuple of characters) or  *)
(* an integer.                                                             *)

JAbsent == [tag |-> "absent", s |-> <<>>, n |-> 0]
JStr(s) == [tag |-> "str", s |-> s, n |-> 0]
JInt(n) == [tag |-> "int", s |-> <<>>, n |-> n]

\* dict.get(key, default)
Get(data, key, default) ==
    IF data[key].tag = "absent" THEN default ELSE data[key]

Min(a, b) == IF a < b THEN a ELSE b
Max(a, b) == IF a > b THEN a ELSE b

Range(s) == {s[i] : i \in 1..Len(s)}

----------------------------------------------------------------------------
(* The Category table (read-only) *)

Categories == {1, 2}

CategoryType == [c \in Categories |-> IF c = 1 THEN "Science" ELSE "Art"]

----------------------------------------------------------------------------
(* The Question table.  A row is                                           *)
(*   [id, question, answer, category, difficulty].                         *)

Ids(rows) == {rows[i].id : i \in 1..Len(rows)}

\* Question.query.filter_by(category=c).all()
filter_by_category(rows, c) == SelectSeq(rows, LAMBDA q : q.category = c)

\* Question.query.get(id): a sequence holding the row, or empty (None)
query_get(rows, id) == SelectSeq(rows, LAMBDA q : q.id = id)

\* Question(...).insert(): the row gets the next autoincrement id
insert(rows, id, question, answer, difficulty, category) ==
    Append(rows, [id |-> id, question |-> question.s, answer |-> answer.s,
                  category |-> category.n, difficulty |-> difficulty.n])

\* question.delete()
delete(rows, id) == SelectSeq(rows, LAMBDA q : q.id # id)

\* question.format()
format(q) ==
    [id |-> q.id, question |-> q.question, answer |-> q.answer,
     category |-> q.category, difficulty |-> q.difficulty]

----------------------------------------------------------------------------
(* Text matching of the search handler *)

Lower(c) ==
    CASE c = "A" -> "a"
      [] c = "B" -> "b"
      [] c = "L" -> "l"
      [] OTHER -> c

\* text ILIKE '%term%' (terms hold no wildcard characters)
ilike(text, term) ==
    \E k \in 0..(Len(text) - Len(term)) :
        \A i \in 1..Len(term) : Lower(text[k + i]) = Lower(term[i])

----------------------------------------------------------------------------
(* Pagination *)

\* Python's s[start:end] for integer start, end: a negative index counts
\* from the end, and both are clamped to the sequence
Slice(s, start, end) ==
    LET n == Len(s)
        lo == IF start < 0 THEN Max(n + start, 0) ELSE Min(start, n)
        hi == IF end < 0 THEN Max(n + end, 0) ELSE Min(end, n)
    IN  IF lo < hi THEN [i \in 1..(hi - lo) |-> s[lo + i]] ELSE <<>>

\* request.args.get('page', 1, type=int)
PageArg(arg) == IF arg.tag = "int" THEN arg.n ELSE 1

\* paginate_questions with the first page starting at QUESTIONS_PER_PAGE
paginate_questions_from_page(arg, sel) ==
    LET pg == PageArg(arg)
        start == pg * QUESTIONS_PER_PAGE
        end == start + QUESTIONS_PER_PAGE
        formatted == [i \in 1..Len(sel) |-> format(sel[i])]
    IN  Slice(formatted, start, end)

paginate_questions(arg, sel) ==
    LET pg == PageArg(arg)
        start == (pg - 1) * QUESTIONS_PER_PAGE
        end == start + QUESTIONS_PER_PAGE
        formatted == [i \in 1..Len(sel) |-> format(sel[i])]
    IN  Slice(formatted, start, end)

----------------------------------------------------------------------------
(* Requests and responses *)

NoData ==
    [question |-> JAbsent, answer |-> JAbsent, difficulty |-> JAbsent,
     category |-> JAbsent, searchTerm |-> JAbsent]

NoQuiz ==
    [has_previous_questions |-> FALSE, previous_questions |-> {},
     has_quiz_category |-> FALSE, quiz_category |-> [id |-> 0]]

NoReq == [op |-> "none", id |-> 0, page |-> JAbsent, data |-> NoData,
          quiz |-> NoQuiz]

Req(op, id, arg, data, quiz) ==
    [op |-> op, id |-> id, page |-> arg, data |-> data, quiz |-> quiz]

Resp(status, message, qs, q, total, cat) ==
    [status |-> status, message |-> message, questions |-> qs,
     question |-> q, total_questions |-> total, current_category |-> cat]

\* the handler has not answered (yet)
NoResp == Resp(0, "", <<>>, <<>>, 0, "")

\* abort(400), abort(404), abort(422) through the registered error handlers
bad_request == Resp(400, "Bad request!", <<>>, <<>>, 0, "")
not_found == Resp(404, "Resource not found!", <<>>, <<>>, 0, "")
unprocesable_entity == Resp(422, "Unprocessable entity!", <<>>, <<>>, 0, "")

\* an exception no handler catches: Flask's own 500 page
internal_server_error == Resp(500, "Internal Server Error", <<>>, <<>>, 0, "")

----------------------------------------------------------------------------
(* Inputs *)

Text1 == <<"L", "a">>
Text2 == <<"a", "B">>
Answer1 == <<"o", "k">>

\* a payload field: left out, sent empty, or sent with the value v
FieldVals(v) == {JAbsent, JStr(<<>>), v}

\* payloads of question fields: those of "La" in category 1 and of "aB" in
\* category 2, each field left out, empty or populated
QuestionPayloads(text, category) ==
    [question : FieldVals(JStr(text)), answer : FieldVals(JStr(Answer1)),
     difficulty : FieldVals(JInt(1)), category : FieldVals(JInt(category)),
     searchTerm : {JAbsent}]

\* payloads that carry a search term
SearchTerms == {<<"A", "b">>, <<"l">>, <<"x">>}

SearchPayloads ==
    {[NoData EXCEPT !.searchTerm = v] :
        v \in {JStr(<<>>)} \cup {JStr(s) : s \in SearchTerms}}
    \cup {[question |-> JStr(Text1), answer |-> JStr(Answer1),
           difficulty |-> JInt(1), category |-> JInt(1),
           searchTerm |-> JStr(<<"l">>)]}

Payloads ==
    QuestionPayloads(Text1, 1) \cup QuestionPayloads(Text2, 2)
        \cup SearchPayloads

PageArgs == {JAbsent, JInt(1), JInt(2), JInt(-1)}

\* category ids a client may send: 0 ("all"), the categories, an unknown one
ScopeIds == 0..(Cardinality(Categories) + 1)

\* question ids a client may send: those handed out, and one never handed out
QuestionIds == 1..(MaxId + 1)

QuizPayload(has_previous, previous, has_category, category_id) ==
    [has_previous_questions |-> has_previous,
     previous_questions |-> previous,
     has_quiz_category |-> has_category,
     quiz_category |-> [id |-> category_id]]

QuizPayloads ==
    {QuizPayload(TRUE, prev, TRUE, c) : prev \in SUBSET (1..MaxId), c \in ScopeIds}
        \cup {QuizPayload(FALSE, {}, TRUE, c) : c \in ScopeIds}
        \cup {QuizPayload(TRUE, prev, FALSE, 0) : prev \in SUBSET (1..MaxId)}
        \cup {QuizPayload(FALSE, {}, FALSE, 0)}

----------------------------------------------------------------------------
(* GET /questions *)

get_questions(arg) ==
    /\ pc = "idle"
    /\ LET selection_ == questions
           total_questions == Len(selection_)
           current == paginate_questions(arg, selection_)
       IN  resp' = IF Len(current) = 0
                   THEN not_found
                   ELSE Resp(200, "", current, <<>>, total_questions, "")
    /\ req' = Req("GET /questions", 0, arg, NoData, NoQuiz)
    /\ pc' = "done"
    /\ UNCHANGED <<catalogVars, quizVars, history, pageVars>>

(* DELETE /questions/<id> *)

\* delete_question answering success without the row being deleted
delete_question_no_commit(id) ==
    /\ pc = "idle"
    /\ LET question == query_get(questions, id)
       IN  IF question = <<>>
           THEN resp' = internal_server_error
           ELSE resp' = Resp(200, "Question successfully deleted!",
                             <<>>, <<>>, 0, "")
    /\ UNCHANGED questions
    /\ req' = Req("DELETE /questions/<id>", id, JAbsent, NoData, NoQuiz)
    /\ pc' = "done"
    /\ UNCHANGED <<nextId, quizVars, history, pageVars>>

delete_question(id) ==
    /\ pc = "idle"
    /\ LET question == query_get(questions, id)
       IN  IF question = <<>>
           THEN \* None.delete(): AttributeError, which `except IndexError`
                \* does not catch
                /\ resp' = internal_server_error
                /\ UNCHANGED questions
           ELSE /\ questions' = delete(questions, id)
                /\ resp' = Resp(200, "Question successfully deleted!",
                                <<>>, <<>>, 0, "")
    /\ req' = Req("DELETE /questions/<id>", id, JAbsent, NoData, NoQuiz)
    /\ pc' = "done"
    /\ UNCHANGED <<nextId, quizVars, history, pageVars>>

(* POST /questions *)

IsEmpty(v) == v = JStr(<<>>)

\* the validation without its test of category
create_validation_skips_category(question, answer, difficulty, category) ==
    IsEmpty(question) \/ IsEmpty(answer) \/ IsEmpty(difficulty)

\* the `if` of create_question that aborts with 422
create_validation_fails(question, answer, difficulty, category) ==
    IsEmpty(question) \/ IsEmpty(answer)
        \/ IsEmpty(difficulty) \/ IsEmpty(category)

create_question(data) ==
    LET question == Get(data, "question", JStr(<<>>))
        answer == Get(data, "answer", JStr(<<>>))
        difficulty == Get(data, "difficulty", JStr(<<>>))
        category == Get(data, "category", JStr(<<>>))
    IN  IF create_validation_fails(question, answer, difficulty, category)
        THEN /\ resp' = unprocesable_entity
             /\ UNCHANGED catalogVars
        ELSE /\ nextId <= MaxId
             /\ questions' = insert(questions, nextId, question, answer,
                                    difficulty, category)
             /\ nextId' = nextId + 1
             /\ resp' = Resp(201, "Question successfully created!",
                             <<>>, <<>>, 0, "")

\* `reques.get_json()`: the name is undefined, so the body raises NameError
\* before it reads the payload
search_questions(data) ==
    /\ resp' = internal_server_error
    /\ UNCHANGED catalogVars

\* the rules bound to POST /questions, in the order app.route registered
\* them; the first rule that matches serves the request
post_questions_rules == <<"create_question", "search_questions">>

post_questions(data) ==
    /\ pc = "idle"
    /\ IF Head(post_questions_rules) = "create_question"
       THEN create_question(data)
       ELSE search_questions(data)
    /\ req' = Req("POST /questions", 0, JAbsent, data, NoQuiz)
    /\ pc' = "done"
    /\ UNCHANGED <<quizVars, history, pageVars>>

(* GET /categories/<id>/questions *)

\* Category.query.filter_by(id=id).one_or_none() is None
category_is_none(id) == id \notin Categories

\* get_questions_by_category paginating every question
get_questions_by_category_unfiltered(id, arg) ==
    /\ pc = "idle"
    /\ IF category_is_none(id)
       THEN resp' = bad_request
       ELSE LET selection_ == questions
                paginated == paginate_questions(arg, selection_)
            IN  resp' = Resp(200, "", paginated, <<>>, Len(questions),
                             CategoryType[id])
    /\ req' = Req("GET /categories/<id>/questions", id, arg, NoData, NoQuiz)
    /\ pc' = "done"
    /\ UNCHANGED <<catalogVars, quizVars, history, pageVars>>

get_questions_by_category(id, arg) ==
    /\ pc = "idle"
    /\ IF category_is_none(id)
       THEN resp' = bad_request
       ELSE LET selection_ == filter_by_category(questions, id)
                paginated == paginate_questions(arg, selection_)
            IN  resp' = Resp(200, "", paginated, <<>>, Len(questions),
                             CategoryType[id])
    /\ req' = Req("GET /categories/<id>/questions", id, arg, NoData, NoQuiz)
    /\ pc' = "done"
    /\ UNCHANGED <<catalogVars, quizVars, history, pageVars>>

----------------------------------------------------------------------------
(* POST /quizzes *)

\* the validation with `and` in place of `or`
quiz_validation_fails_and(data) ==
    (~data.has_quiz_category) /\ (~data.has_previous_questions)

\* the `if` of get_random_quiz_question that aborts with 400
quiz_validation_fails(data) ==
    (~data.has_quiz_category) \/ (~data.has_previous_questions)

\* the questions the handler draws from
quiz_candidates(rows, category_id) ==
    IF category_id = 0 THEN rows ELSE filter_by_category(rows, category_id)

\* the loop's test never asking for another draw
already_asked_never(q, previous_questions) == FALSE

\* the test of the while loop: draw again?
already_asked(q, previous_questions) == q.id \in previous_questions

get_random_quiz_question(data, sess) ==
    /\ pc = "idle"
    /\ req' = Req("POST /quizzes", 0, JAbsent, NoData, data)
    /\ in_session' = sess
    /\ IF quiz_validation_fails(data)
       THEN /\ resp' = bad_request
            /\ pc' = "done"
            /\ UNCHANGED <<quiz_pool, next_question>>
       ELSE LET pool == quiz_candidates(questions, data.quiz_category.id)
            IN  IF Len(pool) = 0
                THEN \* random.randint(0, -1) raises ValueError
                     /\ resp' = internal_server_error
                     /\ pc' = "done"
                     /\ UNCHANGED <<quiz_pool, next_question>>
                ELSE /\ \E i \in 1..Len(pool) : next_question' = <<pool[i]>>
                     /\ quiz_pool' = pool
                     /\ pc' = "while"
                     /\ resp' = NoResp
    /\ UNCHANGED <<catalogVars, history, pageVars>>

\* one iteration of `while found:`
quiz_while ==
    /\ pc = "while"
    /\ IF already_asked(next_question[1], req.quiz.previous_questions)
       THEN /\ \E i \in 1..Len(quiz_pool) : next_question' = <<quiz_pool[i]>>
            /\ UNCHANGED <<pc, quiz_pool, resp>>
       ELSE /\ resp' = Resp(200, "", <<>>, <<format(next_question[1])>>,
                            0, "")
            /\ pc' = "done"
            /\ quiz_pool' = <<>>
            /\ next_question' = <<>>
    /\ UNCHANGED <<catalogVars, req, in_session, history, pageVars>>

----------------------------------------------------------------------------
(* The response leaves through after_request and the request context is    *)
(* dropped.  The caller of a quiz session appends the id of the question   *)
(* it was served to its history.                                           *)

\* the caller's history once it has the response
caller_history(previous_ids, of_session, r) ==
    IF of_session /\ r.status = 200
    THEN previous_ids \cup {r.question[1].id}
    ELSE previous_ids

after_request ==
    /\ pc = "done"
    /\ pc' = "idle"
    /\ req' = NoReq
    /\ resp' = NoResp
    /\ in_session' = FALSE
    /\ history' = caller_history(history, in_session, resp)
    /\ UNCHANGED <<catalogVars, quiz_pool, next_question, pageVars>>

----------------------------------------------------------------------------
(* The state machine *)

Init ==
    /\ questions = <<>>
    /\ nextId = 1
    /\ req = NoReq
    /\ resp = NoResp
    /\ pc = "idle"
    /\ quiz_pool = <<>>
    /\ next_question = <<>>
    /\ history = {}
    /\ in_session = FALSE
    /\ selection = <<>>
    /\ page = JAbsent
    /\ current_questions = <<>>
    /\ called = FALSE

GetQuestions == \E arg \in PageArgs : get_questions(arg)

DeleteQuestion == \E id \in QuestionIds : delete_question(id)

PostQuestions == \E data \in Payloads : post_questions(data)

GetQuestionsByCategory ==
    \E id \in ScopeIds, arg \in PageArgs : get_questions_by_category(id, arg)

\* a quiz call with any payload
PlayQuiz == \E data \in QuizPayloads : get_random_quiz_question(data, FALSE)

\* a quiz call of the session: the caller sends its history
SessionPlay ==
    \E scope \in ScopeIds :
        get_random_quiz_question(QuizPayload(TRUE, history, TRUE, scope), TRUE)

Next ==
    \/ GetQuestions
    \/ DeleteQuestion
    \/ PostQuestions
    \/ GetQuestionsByCategory
    \/ PlayQuiz
    \/ SessionPlay
    \/ quiz_while
    \/ after_request

Spec == Init /\ [][Next]_vars

----------------------------------------------------------------------------
(* paginate_questions applied to sequences of up to MaxItems rows *)

Row(i) ==
    [id |-> ((i * 7) % 31) + 1,
     question |-> IF i % 3 = 0 THEN Text1 ELSE Text2,
     answer |-> Answer1, category |-> (i % 2) + 1, difficulty |-> 1]

Items(n) == [i \in 1..n |-> Row(i)]

InitPage ==
    /\ questions = <<>>
    /\ nextId = 1
    /\ req = NoReq
    /\ resp = NoResp
    /\ pc = "idle"
    /\ quiz_pool = <<>>
    /\ next_question = <<>>
    /\ history = {}
    /\ in_session = FALSE
    /\ selection \in {Items(n) : n \in 0..MaxItems}
    /\ page \in {JAbsent} \cup {JInt(p) : p \in (0 - MaxPage)..MaxPage}
    /\ current_questions = <<>>
    /\ called = FALSE

Paginate ==
    /\ ~called
    /\ current_questions' = paginate_questions(page, selection)
    /\ called' = TRUE
    /\ UNCHANGED <<catalogVars, req, resp, pc, quizVars, history,
                   selection, page>>

NextPage == Paginate

SpecPage == InitPage /\ [][NextPage]_vars

----------------------------------------------------------------------------
(* Properties *)

QuizFieldsPresent ==
    req.quiz.has_quiz_category /\ req.quiz.has_previous_questions

\* q is in the candidate pool of a category scope (0 is "all")
InScope(q, scope) == scope = 0 \/ q.category = scope

\* a returned outcome that is no failure and carries no question
IsExhausted(r) ==
    r.status \notin {0, 400, 404, 422, 500} /\ r.question = <<>>

\* C1: a play-quiz call whose previous_ids holds the id of every question of
\* the candidate pool (an empty pool included) returns, and what it returns
\* is the Exhausted outcome: it is never inside the redraw loop and never
\* answers with a failure or a question.
C1_ExhaustedWhenPoolCovered ==
    (/\ req.op = "POST /quizzes"
     /\ QuizFieldsPresent
     /\ \A q \in Range(questions) :
            InScope(q, req.quiz.quiz_category.id)
                => q.id \in req.quiz.previous_questions)
        => (pc = "done" /\ IsExhausted(resp))

\* Once the loop runs over a pool that previous_questions covers, every step
\* of the handler is another draw: the call does not return.
QuizLoopNeverLeavesCoveredPool ==
    [][(pc = "while" /\ Ids(quiz_pool) \subseteq req.quiz.previous_questions)
           => pc' = "while"]_vars

QuizLoopInCoveredPool ==
    pc = "while" /\ Ids(quiz_pool) \subseteq req.quiz.previous_questions

\* C2: a question returned by a play-quiz call belongs to the candidate pool
\* of the scope sent and its id is not among the previous ids sent; in a
\* session it is no question the session was served before.
C2_QuizQuestionInScopeAndUnseen ==
    (pc = "done" /\ req.op = "POST /quizzes" /\ resp.status = 200)
        => /\ Len(resp.question) = 1
           /\ \E q \in Range(questions) :
                  /\ resp.question[1] = format(q)
                  /\ InScope(q, req.quiz.quiz_category.id)
           /\ resp.question[1].id \notin req.quiz.previous_questions
           /\ in_session => resp.question[1].id \notin history

\* C2 happens: a session that was served a question before is served another
\* one, from a category that does not hold every question of the catalog
C2_Witness ==
    /\ pc = "done" /\ req.op = "POST /quizzes" /\ resp.status = 200
    /\ in_session /\ history # {}
    /\ req.quiz.quiz_category.id # 0
    /\ \E q \in Range(questions) : q.category # req.quiz.quiz_category.id
    /\ \E q \in Range(questions) :
           q.category = req.quiz.quiz_category.id /\ q.id \in history

\* C9: a play-quiz call without its category or without its history is
\* answered 400 "Bad request!", with no question drawn or returned, and that
\* answer is not the Exhausted outcome.
C9_QuizMissingFieldIsBadRequest ==
    (req.op = "POST /quizzes" /\ ~QuizFieldsPresent)
        => /\ pc = "done"
           /\ resp.status = 400 /\ resp.message = "Bad request!"
           /\ resp.question = <<>>
           /\ next_question = <<>>
           /\ ~IsExhausted(resp)

\* C9 happens: the history is sent, the category is not, the catalog holds
\* questions
C9_Witness ==
    /\ req.op = "POST /quizzes" /\ pc = "done"
    /\ req.quiz.has_previous_questions /\ ~req.quiz.has_quiz_category
    /\ req.quiz.previous_questions # {}
    /\ Len(questions) >= 2

\* C10: questions by category: an id of no category is answered 400 with no
\* questions; an id of a category is answered 200 with that category's label
\* and a page of questions of the catalog that all are of that category.
C10_QuestionsByCategory ==
    (pc = "done" /\ req.op = "GET /categories/<id>/questions")
        => IF req.id \notin DOMAIN CategoryType
           THEN /\ resp.status = 400
                /\ resp.questions = <<>>
           ELSE /\ resp.status = 200
                /\ resp.current_category = CategoryType[req.id]
                /\ \A i \in 1..Len(resp.questions) :
                       /\ resp.questions[i].category = req.id
                       /\ \E q \in Range(questions) :
                              resp.questions[i] = format(q)

\* C10 happens: a category's page is returned while the catalog also holds a
\* question of another category
C10_Witness ==
    /\ pc = "done" /\ req.op = "GET /categories/<id>/questions"
    /\ resp.status = 200 /\ Len(resp.questions) >= 1
    /\ \E q \in Range(questions) : q.category # req.id

QuestionFields == {"question", "answer", "difficulty", "category"}

MissingOrEmpty(v) == v.tag = "absent" \/ (v.tag = "str" /\ Len(v.s) = 0)

Added(before, after) == SelectSeq(after, LAMBDA q : q \notin Range(before))

\* C7: create with the four fields populated answers 201 and adds exactly
\* that question under an id no question has or had; a question stays in
\* the catalog, and in the listing, until it is deleted; delete by the id of
\* a question answers 200 and removes that question and no other, after
\* which no question has that id.
C7_CreateDeleteRoundTrip ==
    [][/\ (/\ pc = "idle"
           /\ req'.op = "POST /questions"
           /\ \A f \in QuestionFields : ~MissingOrEmpty(req'.data[f]))
              => /\ resp'.status = 201
                 /\ Len(questions') = Len(questions) + 1
                 /\ SubSeq(questions', 1, Len(questions)) = questions
                 /\ LET q == questions'[Len(questions')]
                    IN  /\ q.id \notin Ids(questions)
                        /\ q.id >= nextId /\ q.id < nextId'
                        /\ q.question = req'.data.question.s
                        /\ q.answer = req'.data.answer.s
                        /\ q.category = req'.data.category.n
                        /\ q.difficulty = req'.data.difficulty.n
       /\ \A q \in Range(questions) :
              q \in Range(questions')
                  \/ (/\ req'.op = "DELETE /questions/<id>"
                      /\ req'.id = q.id
                      /\ resp'.status = 200)
       /\ \A q \in Range(questions') : q.id < nextId'
       /\ nextId' >= nextId
       /\ (/\ pc = "idle"
           /\ req'.op = "GET /questions"
           /\ req'.page.tag = "absent"
           /\ Len(questions) \in 1..10)
              => /\ resp'.status = 200
                 /\ resp'.questions = [i \in 1..Len(questions) |->
                                           format(questions[i])]
       /\ (/\ pc = "idle"
           /\ req'.op = "DELETE /questions/<id>"
           /\ req'.id \in Ids(questions))
              => /\ resp'.status = 200
                 /\ resp'.message = "Question successfully deleted!"
                 /\ Len(questions') = Len(questions) - 1
                 /\ req'.id \notin Ids(questions')
                 /\ questions' =
                        SelectSeq(questions, LAMBDA q : q.id # req'.id)]_vars

\* C7 happens: a question that was created is deleted and another question
\* is still in the catalog
C7_Witness ==
    /\ pc = "done" /\ req.op = "DELETE /questions/<id>"
    /\ resp.status = 200
    /\ req.id < nextId /\ req.id \notin Ids(questions)
    /\ Len(questions) >= 1

\* C6: delete by an id no question has is answered NotFound (404) and leaves
\* the catalog as it was.
C6_DeleteMissingIsNotFound ==
    [][(/\ pc = "idle"
        /\ req'.op = "DELETE /questions/<id>"
        /\ req'.id \notin Ids(questions))
           => /\ resp'.status = 404
              /\ questions' = questions]_vars

\* C5: a POST to /questions with a non-empty searchTerm and no question field
\* is answered by search: the page of the questions whose text contains the
\* term, case ignored, in catalog order, or NotFound (404) when there is
\* none; it is not answered by create's validation.
C5_SearchPayloadIsSearched ==
    (/\ pc = "done"
     /\ req.op = "POST /questions"
     /\ req.data.searchTerm.tag = "str" /\ Len(req.data.searchTerm.s) > 0
     /\ \A f \in QuestionFields : req.data[f].tag = "absent")
        => LET found == SelectSeq(questions,
                            LAMBDA q : ilike(q.question, req.data.searchTerm.s))
           IN  IF Len(found) = 0
               THEN resp.status = 404
               ELSE /\ resp.status = 200
                    /\ resp.questions = paginate_questions(JAbsent, found)

\* C3: for a page number >= 1, paginate_questions returns the elements at
\* positions (page-1)*10 up to but excluding page*10 that the sequence has,
\* in the sequence's order: at most 10, the remainder on the last page, and
\* nothing past the end.
C3_PageIsTheSlice ==
    (called /\ PageArg(page) >= 1)
        => LET start == (PageArg(page) - 1) * 10
               n == Len(selection)
               count == IF n > start THEN Min(10, n - start) ELSE 0
           IN  /\ Len(current_questions) = count
               /\ count <= 10
               /\ \A i \in 1..count :
                      current_questions[i] = format(selection[start + i])

\* C3 happens: 25 items, page 3 gives the 5 items 20..24
C3_Witness ==
    /\ called /\ Len(selection) = 25 /\ page = JInt(3)
    /\ Len(current_questions) = 5
    /\ current_questions[1] = format(selection[21])

\* C4: every page number outside 1..ceil(len/10), zero and negative ones
\* included, gives the empty page.
C4_OutOfRangePageIsEmpty ==
    called
        => LET p == PageArg(page)
               last == (Len(selection) + 9) \div 10
           IN  (p < 1 \/ p > last) => current_questions = <<>>

====
